---- MODULE Spec2Model ----
(***************************************************************************)
(* A model of src/src/utils/quantum_math.py: the two-amplitude             *)
(* wavefunction, the entangled pair, the quantum walk simulator and the    *)
(* randomness analyzer; of the mission bookkeeping of                      *)
(* src/src/utils/data_logger.py; of the warning thresholds of              *)
(* src/src/gui/telemetry_visualizer.py; and of the quantum walk threads of *)
(* src/src/gui/quantum_robot_gui.py.                                       *)
(*                                                                         *)
(* Numbers.  Python floats are modelled by exact rationals and square      *)
(* roots of rationals, so that a rounding error of the order of 1e-16 is   *)
(* not modelled while every difference the code makes on purpose is:       *)
(*   - an amplitude pair is [ar, ai, br, bi, den], standing for            *)
(*       alpha = (ar + i*ai) / sqrt(den),  beta = (br + i*bi) / sqrt(den); *)
(*     the literal 0.707+0j pair is [707, 0, 707, 0, 1000000];             *)
(*   - a probability is a fraction [n, d] in lowest terms;                 *)
(*   - entropy is a fixed-point number of 1/1024 bit, coherence of 1/1000; *)
(*   - coherence_time is in milliseconds, noise_level in thousandths,      *)
(*     decoherence_rate a fraction per second, the clock in seconds.       *)
(***************************************************************************)
EXTENDS Integers, Sequences, FiniteSets, TLC

VARIABLES
    sim,    \* the QuantumWalkSimulator object: its fields
    now,    \* the wall clock read by time.time(), in seconds
    ret,    \* the last call on the simulator: operation, arguments, outcome,
            \* and how many entries it evicted from each bounded history
    wf1,    \* a QuantumWavefunction owned by the caller
    wf2,    \* a second QuantumWavefunction owned by the caller
    ent,    \* the EntangledState built over wf1 and wf2, if any
    pret,   \* the last call on wf1 / wf2 / ent: operation, draw, result
    analyzer,   \* the QuantumStateAnalyzer object: its fields
    decisions,  \* the caller's list of decisions, as the last call left it
    aret,   \* the last call on the analyzer and the one before it
    logger,     \* the QuantumDataLogger object and the rows of its database
    lret,       \* the last call on the data logger
    visualizer, \* the TelemetryVisualizer object: its fields
    vret,       \* the last call on the visualizer and the callbacks it invoked
    gui     \* the QuantumRobotGUI object: its flags, the commands it sent to
            \* the robot, and its quantum-walk worker threads

vars == <<sim, now, ret, wf1, wf2, ent, pret, analyzer, decisions, aret,
          logger, lret, visualizer, vret, gui>>

---------------------------------------------------------------------------
(* Bounds of the model.                                                    *)

\* max_history of update_histories is 1000 in the source; the model keeps
\* the same code with a capacity small enough to overflow within a run.
MaxHistory == 1
\* total_decisions is capped: make_quantum_decision is disabled beyond it.
MaxDecisions == 2
\* The clock stops ticking at MaxTime.
MaxTime == 2
\* Numerators of a normalised amplitude stay within -MaxAmp .. MaxAmp.
MaxAmp == 1

\* _quantum_random returns (combined % 1000000) / 1000000.0
RandomRange == 1000000
\* reset_to_superposition and the constructor default: 0.707, in thousandths
Superposition707 == 707

\* Draws of _quantum_random, in millionths: both ends of the range and the
\* values around the probabilities 0.499849 and 0.5.
RandomDraws == {0, 499848, 499849, 499999, 500000, RandomRange - 1}

\* Arguments given to initialize: <<left_amplitude, right_amplitude,
\* coherence_time, noise_level>>, the amplitudes and the noise level in
\* thousandths, the coherence time in milliseconds.
Configs ==
    { <<1000, 0, 1000, 0>>,       \* certain LEFT, no noise
      <<600, 800, 1000, 100>>,    \* the configuration of test_initialization
      <<0, 0, 1, 0>>,             \* zero amplitudes, a coherence time of 1 ms
      <<-1000, 1500, -1000, 0>>,  \* amplitudes outside [0,1], coherence_time < 0
      <<707, 707, 0, 100>> }      \* coherence_time = 0
\* Outcomes of the four random.gauss(0, sigma) draws of one step with
\* sigma > 0 (real and imaginary part of noise_alpha, then of noise_beta),
\* in units of 1/sqrt(den) of the pair they are added to.
NoiseDraws == { <<0, 0, 0, 0>>, <<-1, 0, 0, 0>>, <<0, 0, 0, -1>> }
\* Phase noise of apply_decoherence, in quarter turns: theta = k * pi/2.
PhaseDraws == {0, 1}

---------------------------------------------------------------------------
(* Arithmetic.                                                             *)

Abs(x) == IF x < 0 THEN -x ELSE x

RECURSIVE GCD(_, _)
GCD(a, b) == IF b = 0 THEN a ELSE GCD(b, a % b)

\* A fraction in lowest terms.
Frac(n, d) == LET g == GCD(n, d) IN [n |-> n \div g, d |-> d \div g]

\* floor(sqrt(n)) by bisection on lo <= sqrt(n) < hi.
RECURSIVE ISqrtIn(_, _, _)
ISqrtIn(n, lo, hi) ==
    IF hi - lo <= 1 THEN lo
    ELSE LET mid == (lo + hi) \div 2
         IN  IF mid * mid <= n THEN ISqrtIn(n, mid, hi) ELSE ISqrtIn(n, lo, mid)

ISqrt(n) == ISqrtIn(n, 0, 46341)

\* floor(log2(x)) for 1 <= x < 2^31, by halving the range of the exponent.
FloorLog2(x) ==
    LET a  == IF x >= 65536 THEN 16 ELSE 0
        xa == IF x >= 65536 THEN x \div 65536 ELSE x
        b  == IF xa >= 256 THEN 8 ELSE 0
        xb == IF xa >= 256 THEN xa \div 256 ELSE xa
        c  == IF xb >= 16 THEN 4 ELSE 0
        xc == IF xb >= 16 THEN xb \div 16 ELSE xb
        d  == IF xc >= 4 THEN 2 ELSE 0
        xd == IF xc >= 4 THEN xc \div 4 ELSE xc
    IN  a + b + c + d + (IF xd >= 2 THEN 1 ELSE 0)

\* The powers of two 2^0 .. 2^16, PowersOfTwo[e + 1] being 2^e.
PowersOfTwo ==
    <<1, 2, 4, 8, 16, 32, 64, 128, 256, 512, 1024, 2048, 4096, 8192, 16384,
      32768, 65536>>

\* x scaled by a power of two into 16384 .. 32767 (a 15-bit mantissa).
Mantissa(x) ==
    LET e == FloorLog2(x)
    IN  IF e >= 14 THEN x \div PowersOfTwo[e - 13] ELSE x * PowersOfTwo[15 - e]

\* The first k fractional bits of log2(m / 16384), m a 15-bit mantissa.
RECURSIVE LogBits(_, _)
LogBits(m, k) ==
    IF k = 0 THEN 0
    ELSE LET s == (m * m) \div 16384
         IN  IF s >= 32768 THEN PowersOfTwo[k] + LogBits(s \div 2, k - 1)
             ELSE LogBits(s, k - 1)

\* math.log2(x) for an integer x >= 1, in 1/1024.
Log2Fix(x) == FloorLog2(x) * 1024 + LogBits(Mantissa(x), 10)

\* -p * math.log2(p) for a probability p = [n, d] with 0 < p <= 1, in 1/1024.
EntropyTerm(p) == (p.n * (Log2Fix(p.d) - Log2Fix(p.n))) \div p.d

---------------------------------------------------------------------------
(* class QuantumWavefunction                                               *)

\* An amplitude pair; the zero pair has one representation.
Pair(ar, ai, br, bi, den) ==
    IF ar = 0 /\ ai = 0 /\ br = 0 /\ bi = 0
    THEN [ar |-> 0, ai |-> 0, br |-> 0, bi |-> 0, den |-> 1]
    ELSE [ar |-> ar, ai |-> ai, br |-> br, bi |-> bi, den |-> den]

\* abs(alpha)**2 * den and abs(beta)**2 * den
AlphaSq(w) == w.ar * w.ar + w.ai * w.ai
BetaSq(w) == w.br * w.br + w.bi * w.bi

\* A normalize that replaces a pair of norm 0 by the equal superposition.
NormalizeOrSuperpose(w) ==
    LET N == AlphaSq(w) + BetaSq(w)
        g == GCD(GCD(Abs(w.ar), Abs(w.ai)), GCD(Abs(w.br), Abs(w.bi)))
    IN  IF N > 0
        THEN [ar |-> w.ar \div g, ai |-> w.ai \div g,
              br |-> w.br \div g, bi |-> w.bi \div g, den |-> N \div (g * g)]
        ELSE [ar |-> 1, ai |-> 0, br |-> 1, bi |-> 0, den |-> 2]

\* QuantumWavefunction.normalize: divide both amplitudes by
\* norm = sqrt(abs(alpha)**2 + abs(beta)**2) when norm > 0.  Dividing
\* x/sqrt(den) by sqrt(N/den) gives x/sqrt(N); the common factor g of the
\* numerators is then cancelled against N.
Normalize(w) ==
    LET N == AlphaSq(w) + BetaSq(w)
        g == GCD(GCD(Abs(w.ar), Abs(w.ai)), GCD(Abs(w.br), Abs(w.bi)))
    IN  IF N > 0
        THEN [ar |-> w.ar \div g, ai |-> w.ai \div g,
              br |-> w.br \div g, bi |-> w.bi \div g, den |-> N \div (g * g)]
        ELSE w

\* QuantumWavefunction.__init__(alpha, beta) for real alpha, beta given in
\* thousandths.
NewWavefunction(alpha, beta) ==
    Normalize(Pair(alpha, 0, beta, 0, 1000 * 1000))

\* self.alpha and self.beta as complex values
Alpha(w) == [re |-> w.ar, im |-> w.ai, den |-> w.den]
Beta(w) == [re |-> w.br, im |-> w.bi, den |-> w.den]

\* QuantumWavefunction.get_probabilities
GetProbabilities(w) ==
    [left |-> Frac(AlphaSq(w), w.den), right |-> Frac(BetaSq(w), w.den)]

\* A collapse that compares with <= instead of <.
DrawAtOrBelow(r, p) ==
    LET g == GCD(p.d, RandomRange)
    IN  r * (p.d \div g) <= p.n * (RandomRange \div g)

\* random_val < left_prob, random_val = r / 1000000 and left_prob = p.n / p.d
DrawBelow(r, p) ==
    LET g == GCD(p.d, RandomRange)
    IN  r * (p.d \div g) < p.n * (RandomRange \div g)

LeftBasis == [ar |-> 1, ai |-> 0, br |-> 0, bi |-> 0, den |-> 1]
RightBasis == [ar |-> 0, ai |-> 0, br |-> 1, bi |-> 0, den |-> 1]

\* A collapse that returns the direction and forgets to set the amplitudes.
CollapseWithoutAssignment(w, r) ==
    IF DrawBelow(r, GetProbabilities(w).left)
    THEN [direction |-> "LEFT", wf |-> w]
    ELSE [direction |-> "RIGHT", wf |-> w]

\* QuantumWavefunction.collapse with _quantum_random() returning r: the
\* direction returned and the pair left behind.
Collapse(w, r) ==
    IF DrawBelow(r, GetProbabilities(w).left)
    THEN [direction |-> "LEFT", wf |-> LeftBasis]
    ELSE [direction |-> "RIGHT", wf |-> RightBasis]

\* alpha, beta multiplied by cmath.exp(1j * k * pi/2) = i^k
RECURSIVE Rotate(_, _)
Rotate(w, k) ==
    IF k = 0 THEN w
    ELSE Rotate([ar |-> -w.ai, ai |-> w.ar, br |-> -w.bi, bi |-> w.br,
                 den |-> w.den], k - 1)

\* math.exp(-decoherence_rate * dt) is 0.0 once the exponent is below -745.2;
\* rate = [n, d] per second, dt in seconds.
DecayUnderflows(rate, dt) == rate.n * dt >= 746 * rate.d

\* The phases 2*pi*random.random()*rate*dt can take, random.random() in
\* [0, 1): k quarter turns with k/4 < rate*dt, or none.
PhaseAllowed(k, rate, dt) == k = 0 \/ k * rate.d < 4 * rate.n * dt

\* QuantumWavefunction.apply_decoherence with the phase noise k quarter
\* turns.  A decay factor in (0, 1) scales both amplitudes alike and is
\* undone by the normalize that follows; a decay factor of 0.0 leaves the
\* zero pair, which normalize does not touch.
ApplyDecoherence(w, rate, dt, k) ==
    IF DecayUnderflows(rate, dt)
    THEN Pair(0, 0, 0, 0, 1)
    ELSE Normalize(Rotate(w, k))

---------------------------------------------------------------------------
(* class QuantumWalkSimulator                                              *)

\* QuantumWalkSimulator.calculate_entropy
CalculateEntropy(w) ==
    LET p == GetProbabilities(w)
    IN  (IF p.left.n > 0 THEN EntropyTerm(p.left) ELSE 0)
      + (IF p.right.n > 0 THEN EntropyTerm(p.right) ELSE 0)

\* QuantumWalkSimulator.calculate_coherence: abs(alpha.conjugate() * beta),
\* in thousandths.  conj(alpha) * beta = (zr + i*zi) / den.
CalculateCoherence(w) ==
    LET zr == w.ar * w.br + w.ai * w.bi
        zi == w.ar * w.bi - w.ai * w.br
    IN  IF zi = 0 THEN (Abs(zr) * 1000) \div w.den
        ELSE IF zr = 0 THEN (Abs(zi) * 1000) \div w.den
        ELSE ISqrt((zr * zr + zi * zi) * 1000 * 1000) \div w.den

\* complex(0.707, 0) twice: the pair reset_to_superposition installs.
SuperpositionPair ==
    [ar |-> Superposition707, ai |-> 0, br |-> Superposition707, bi |-> 0,
     den |-> 1000 * 1000]

\* QuantumWalkSimulator.__init__
NewSimulator ==
    [wavefunction      |-> NewWavefunction(Superposition707, Superposition707),
     current_state     |-> "SUPERPOSITION",
     decision_history  |-> <<>>,
     entropy_history   |-> <<>>,
     coherence_history |-> <<>>,
     decoherence_rate  |-> [n |-> 1, d |-> 10],
     coherence_time    |-> 1000,
     noise_level       |-> 100,
     last_decision_time |-> 0,
     total_decisions   |-> 0]

\* An initialize that sets the pair and the parameters and keeps the
\* histories.
InitializeKeepingHistories(s, left, right, coherence_time, noise_level) ==
    [s EXCEPT
        !.wavefunction = Normalize(Pair(left, 0, right, 0, 1000 * 1000)),
        !.coherence_time = coherence_time,
        !.noise_level = noise_level,
        !.decoherence_rate = IF coherence_time > 0
                             THEN Frac(1000, coherence_time)
                             ELSE [n |-> 0, d |-> 1],
        !.current_state = "SUPERPOSITION"]

\* An initialize that also resets the count of decisions.
InitializeResettingCount(s, left, right, coherence_time, noise_level) ==
    [s EXCEPT
        !.wavefunction = Normalize(Pair(left, 0, right, 0, 1000 * 1000)),
        !.coherence_time = coherence_time,
        !.noise_level = noise_level,
        !.decoherence_rate = IF coherence_time > 0
                             THEN Frac(1000, coherence_time)
                             ELSE [n |-> 0, d |-> 1],
        !.current_state = "SUPERPOSITION",
        !.decision_history = <<>>,
        !.entropy_history = <<>>,
        !.coherence_history = <<>>,
        !.total_decisions = 0]

\* QuantumWalkSimulator.initialize
Initialize(s, left_amplitude, right_amplitude, coherence_time, noise_level) ==
    [s EXCEPT
        !.wavefunction = Normalize(Pair(left_amplitude, 0, right_amplitude, 0,
                                        1000 * 1000)),
        !.coherence_time = coherence_time,
        !.noise_level = noise_level,
        !.decoherence_rate = IF coherence_time > 0
                             THEN Frac(1000, coherence_time)
                             ELSE [n |-> 0, d |-> 1],
        !.current_state = "SUPERPOSITION",
        !.decision_history = <<>>,
        !.entropy_history = <<>>,
        !.coherence_history = <<>>]

\* The pair w with noise_alpha = (g[1] + i*g[2]) / sqrt(den) and
\* noise_beta = (g[3] + i*g[4]) / sqrt(den) added.
AddNoise(w, g) ==
    Pair(w.ar + g[1], w.ai + g[2], w.br + g[3], w.bi + g[4], w.den)

\* QuantumWalkSimulator.evolve_quantum_state(dt) with phase noise k and the
\* four random.gauss draws g.
EvolveQuantumState(s, dt, k, g) ==
    LET w == ApplyDecoherence(s.wavefunction, s.decoherence_rate, dt, k)
    IN  [s EXCEPT !.wavefunction =
            IF s.noise_level > 0 THEN Normalize(AddNoise(w, g)) ELSE w]

\* A truncation that removes the newest entry instead of the oldest.
BoundedDroppingNewest(h) ==
    IF Len(h) > MaxHistory THEN SubSeq(h, 1, Len(h) - 1) ELSE h

\* pop(0) when the list has grown beyond max_history
Bounded(h) == IF Len(h) > MaxHistory THEN Tail(h) ELSE h

\* QuantumWalkSimulator.update_histories
UpdateHistories(s) ==
    [s EXCEPT
        !.entropy_history =
            Bounded(Append(@, CalculateEntropy(s.wavefunction))),
        !.coherence_history =
            Bounded(Append(@, CalculateCoherence(s.wavefunction)))]

\* The number of entries the pop(0) of update_histories removes from each
\* history when step is called on s.
Popped(s) ==
    IF s.last_decision_time > 0 /\ Len(s.entropy_history) + 1 > MaxHistory
    THEN 1 ELSE 0

\* A step without the test on last_decision_time: the first call evolves
\* the pair over the whole time since the epoch.
StepWithoutGuard(s, t, k, g) ==
    [UpdateHistories(EvolveQuantumState(s, t - s.last_decision_time, k, g))
        EXCEPT !.last_decision_time = t]

\* QuantumWalkSimulator.step with time.time() returning t
Step(s, t, k, g) ==
    LET evolved == IF s.last_decision_time > 0
                   THEN UpdateHistories(
                            EvolveQuantumState(s, t - s.last_decision_time, k, g))
                   ELSE s
    IN  [evolved EXCEPT !.last_decision_time = t]

\* A reset that tags the engine ENTANGLED.
ResetToEntangled(s) ==
    [s EXCEPT !.wavefunction = SuperpositionPair,
              !.current_state = "ENTANGLED"]

\* A reset that restores the amplitudes and forgets current_state.
ResetAmplitudesOnly(s) == [s EXCEPT !.wavefunction = SuperpositionPair]

\* QuantumWalkSimulator.reset_to_superposition
ResetToSuperposition(s) ==
    [s EXCEPT !.wavefunction = SuperpositionPair,
              !.current_state = "SUPERPOSITION"]

\* A decision that records the amplitudes the pair had before the collapse.
DecisionWithPriorAmplitudes(s, r, t) ==
    LET p == GetProbabilities(s.wavefunction)
        c == Collapse(s.wavefunction, r)
    IN  [direction       |-> c.direction,
         probability     |-> IF c.direction = "LEFT" THEN p.left ELSE p.right,
         amplitude_left  |-> Alpha(s.wavefunction),
         amplitude_right |-> Beta(s.wavefunction),
         entropy         |-> CalculateEntropy(s.wavefunction),
         coherence       |-> CalculateCoherence(s.wavefunction),
         timestamp       |-> t]

\* A decision whose entropy and coherence are computed after the collapse.
DecisionMeasuredAfterCollapse(s, r, t) ==
    LET p == GetProbabilities(s.wavefunction)
        c == Collapse(s.wavefunction, r)
    IN  [direction       |-> c.direction,
         probability     |-> IF c.direction = "LEFT" THEN p.left ELSE p.right,
         amplitude_left  |-> Alpha(c.wf),
         amplitude_right |-> Beta(c.wf),
         entropy         |-> CalculateEntropy(c.wf),
         coherence       |-> CalculateCoherence(c.wf),
         timestamp       |-> t]

\* The QuantumDecision built by make_quantum_decision, _quantum_random()
\* returning r and time.time() returning t.
Decision(s, r, t) ==
    LET p == GetProbabilities(s.wavefunction)
        c == Collapse(s.wavefunction, r)
    IN  [direction       |-> c.direction,
         probability     |-> IF c.direction = "LEFT" THEN p.left ELSE p.right,
         amplitude_left  |-> Alpha(c.wf),
         amplitude_right |-> Beta(c.wf),
         entropy         |-> CalculateEntropy(s.wavefunction),
         coherence       |-> CalculateCoherence(s.wavefunction),
         timestamp       |-> t]

\* The state make_quantum_decision assigns after the collapse.
CollapsedState(direction) ==
    IF direction = "LEFT" THEN "LEFT_COLLAPSED" ELSE "RIGHT_COLLAPSED"

\* make_quantum_decision up to and including "Store in history": the
\* simulator as it is just before reset_to_superposition is called.
DecisionStored(s, r, t) ==
    LET d == Decision(s, r, t)
    IN  [s EXCEPT
            !.wavefunction = Collapse(s.wavefunction, r).wf,
            !.current_state = CollapsedState(d.direction),
            !.decision_history = Append(@, d),
            !.total_decisions = @ + 1]

\* QuantumWalkSimulator.make_quantum_decision: the simulator it leaves
MakeQuantumDecision(s, r, t) == ResetToSuperposition(DecisionStored(s, r, t))

---------------------------------------------------------------------------
(* class QuantumStateAnalyzer                                              *)
(* A dict is a function on its keys, the empty dict the empty function.    *)
(* A z statistic is kept as its sign and its square, an exact fraction; a  *)
(* p-value 2 * (1 - Phi(|z|)) as its comparison with 0.05; the entropy rate *)
(* in 1/1024 bit; an autocorrelation as a fraction in lowest terms.        *)

\* max_lag of _autocorrelation_test
MaxLag == 10
\* Decision lists of every length up to MaxSeqLen are analysed.
MaxSeqLen == 3
\* Lengths of the longer lists analysed: max_lag * 2 and the two after.
LongLengths == {2 * MaxLag, 2 * MaxLag + 1, 2 * MaxLag + 2}

Directions == {"LEFT", "RIGHT"}

\* A QuantumDecision with the given direction, as a fresh simulator makes
\* it at time 1.
DecisionOf(dir) ==
    Decision(NewSimulator, IF dir = "LEFT" THEN 0 ELSE RandomRange - 1, 1)

\* Lists of n decisions: LEFT and RIGHT in turn, one direction only, and
\* LEFT for the first half followed by RIGHT.
Alternating(n) ==
    [i \in 1..n |-> DecisionOf(IF i % 2 = 1 THEN "LEFT" ELSE "RIGHT")]
AllOf(n, dir) == [i \in 1..n |-> DecisionOf(dir)]
Blocks(n) ==
    [i \in 1..n |-> DecisionOf(IF 2 * i <= n THEN "LEFT" ELSE "RIGHT")]

\* The lists given to analyze_randomness_quality.
DecisionLists ==
    UNION { { [i \in 1..n |-> DecisionOf(f[i])] : f \in [1..n -> Directions] } :
            n \in 0..MaxSeqLen }
    \cup UNION { { Alternating(n), AllOf(n, "LEFT"), AllOf(n, "RIGHT"),
                   Blocks(n) } : n \in LongLengths }

\* QuantumStateAnalyzer.__init__
NewAnalyzer == [analysis_results |-> <<>>]

\* binary_sequence = [1 if d.direction == "LEFT" else 0 for d in decisions]
BinarySequence(ds) ==
    [i \in 1..Len(ds) |-> IF ds[i].direction = "LEFT" THEN 1 ELSE 0]

\* sum(sequence)
RECURSIVE Sum(_)
Sum(sequence) ==
    IF sequence = <<>> THEN 0 ELSE Head(sequence) + Sum(Tail(sequence))

\* p_value > 0.05 for a z statistic of square zsq: |z| < 1.95996398, that is
\* zsq < 3.84145882, compared digit by digit.
PValueAbove5Percent(zsq) ==
    LET q  == zsq.n \div zsq.d
        r1 == zsq.n % zsq.d
        d1 == (r1 * 10000) \div zsq.d
        r2 == (r1 * 10000) % zsq.d
        d2 == (r2 * 10000) \div zsq.d
    IN  IF q # 3 THEN q < 3
        ELSE IF d1 # 8414 THEN d1 < 8414
        ELSE d2 < 5882

Sign(x) == IF x > 0 THEN 1 ELSE IF x < 0 THEN -1 ELSE 0

\* A count that starts at 0: the number of changes, not of runs.
CountChanges(sequence, i) ==
    Cardinality({j \in 2..Len(sequence) : sequence[j] # sequence[j-1]})

\* The loop of _runs_test from index i on (0-based in the source): runs = 1,
\* and one more for every element that differs from the one before it.
RECURSIVE CountRuns(_, _)
CountRuns(sequence, i) ==
    IF i > Len(sequence) THEN 1
    ELSE (IF sequence[i] # sequence[i-1] THEN 1 ELSE 0)
         + CountRuns(sequence, i + 1)

\* A test that never finds the sequence degenerate.
NeverDegenerate(ones, zeros) == FALSE

\* ones == 0 or zeros == 0
Degenerate(ones, zeros) == ones = 0 \/ zeros = 0

\* QuantumStateAnalyzer._runs_test
RunsTest(sequence) ==
    LET n     == Len(sequence)
        runs  == CountRuns(sequence, 2)
        ones  == Sum(sequence)
        zeros == n - ones
        t     == 2 * ones * zeros
        \* runs - expected_runs = dev / n
        dev   == runs * n - t - n
        \* variance = t * (t - n) / (n * n * (n - 1))
        positive == t * (t - n) > 0
        zsq   == IF positive THEN Frac(dev * dev * (n - 1), t * (t - n))
                 ELSE [n |-> 0, d |-> 1]
    IN  IF n < 2 THEN [test |-> "runs", result |-> "insufficient_data"]
        ELSE IF Degenerate(ones, zeros)
        THEN [test |-> "runs", result |-> "degenerate"]
        ELSE [test |-> "runs",
              runs_observed |-> runs,
              runs_expected |-> Frac(t + n, n),
              z_statistic |-> [sign |-> IF positive THEN Sign(dev) ELSE 0,
                               square |-> zsq],
              p_value_above_5_percent |-> PValueAbove5Percent(zsq),
              result |-> IF PValueAbove5Percent(zsq) THEN "random"
                         ELSE "non_random"]

\* QuantumStateAnalyzer._frequency_test: z = (ones/n - 0.5) / sqrt(0.25/n),
\* so z*z = (2*ones - n)**2 / n.
FrequencyTest(sequence) ==
    LET n    == Len(sequence)
        ones == Sum(sequence)
        zsq  == Frac((2 * ones - n) * (2 * ones - n), n)
    IN  IF n = 0 THEN [test |-> "frequency", result |-> "insufficient_data"]
        ELSE [test |-> "frequency",
              proportion_ones |-> Frac(ones, n),
              expected_proportion |-> [n |-> 1, d |-> 2],
              z_statistic |-> [sign |-> Sign(2 * ones - n), square |-> zsq],
              p_value_above_5_percent |-> PValueAbove5Percent(zsq),
              result |-> IF PValueAbove5Percent(zsq) THEN "random"
                         ELSE "biased"]

\* sum(f[i] for i in lo..hi)
RECURSIVE SumOver(_, _, _)
SumOver(f, lo, hi) == IF lo > hi THEN 0 ELSE f[lo] + SumOver(f, lo + 1, hi)

\* A signed fraction in lowest terms, 0 being 0/1.
SignedFrac(n, d) == LET f == Frac(Abs(n), d) IN [n |-> Sign(n) * f.n, d |-> f.d]

\* The autocorrelation of the sequence at one lag.  centered[i] * n is
\* n * x - sum(sequence), so numerator and denominator are both scaled by
\* n * n and their quotient is exact.
Autocorrelation(sequence, lag) ==
    LET n        == Len(sequence)
        ones     == Sum(sequence)
        centered == [i \in 1..n |-> n * sequence[i] - ones]
        numerator   == SumOver([i \in 1..(n - lag) |->
                                   centered[i] * centered[i + lag]], 1, n - lag)
        denominator == SumOver([i \in 1..n |-> centered[i] * centered[i]], 1, n)
    IN  IF denominator > 0 THEN SignedFrac(numerator, denominator)
        ELSE [n |-> 0, d |-> 1]

\* max(abs(ac) for ac in autocorrs) if autocorrs else 0
RECURSIVE MaxAbs(_)
MaxAbs(autocorrs) ==
    IF autocorrs = <<>> THEN [n |-> 0, d |-> 1]
    ELSE LET a == [n |-> Abs(Head(autocorrs).n), d |-> Head(autocorrs).d]
             m == MaxAbs(Tail(autocorrs))
         IN  IF a.n * m.d > m.n * a.d THEN a ELSE m

\* The lags of range(1, min(max_lag + 1, n // 2))
Lags(n, max_lag) ==
    LET stop == IF max_lag + 1 < n \div 2 THEN max_lag + 1 ELSE n \div 2
    IN  1..(stop - 1)

\* QuantumStateAnalyzer._autocorrelation_test
AutocorrelationTest(sequence, max_lag) ==
    LET n         == Len(sequence)
        lags      == Lags(n, max_lag)
        autocorrs == [lag \in lags |-> Autocorrelation(sequence, lag)]
        max_autocorr == MaxAbs(autocorrs)
    IN  IF n < max_lag * 2
        THEN [test |-> "autocorrelation", result |-> "insufficient_data"]
        ELSE [test |-> "autocorrelation",
              autocorrelations |-> autocorrs,
              max_autocorrelation |-> max_autocorr,
              \* max_autocorr < 0.2
              result |-> IF 5 * max_autocorr.n < max_autocorr.d THEN "random"
                         ELSE "correlated"]

\* QuantumStateAnalyzer._entropy_rate, in 1/1024 bit
EntropyRate(sequence) ==
    LET n == Len(sequence)
        total_bigrams == n - 1
        count(a, b) == Cardinality({i \in 1..(n - 1) :
                                       sequence[i] = a /\ sequence[i + 1] = b})
        term(a, b) == IF count(a, b) > 0
                      THEN EntropyTerm(Frac(count(a, b), total_bigrams))
                      ELSE 0
    IN  IF n < 2 THEN 0
        ELSE term(0, 0) + term(0, 1) + term(1, 0) + term(1, 1)

\* An analysis that keeps its first report in analysis_results and returns
\* that report from then on.
AnalyzeRemembering(a, ds) ==
    LET binary_sequence == BinarySequence(ds)
        results == [sequence_length |-> Len(binary_sequence),
                    runs_test       |-> RunsTest(binary_sequence),
                    frequency_test  |-> FrequencyTest(binary_sequence),
                    autocorrelation |-> AutocorrelationTest(binary_sequence, MaxLag),
                    entropy_rate    |-> EntropyRate(binary_sequence)]
    IN  IF Len(ds) < 2
        THEN [analyzer |-> a, decisions |-> ds, report |-> <<>>]
        ELSE IF a.analysis_results = <<>>
        THEN [analyzer |-> [a EXCEPT !.analysis_results = results],
              decisions |-> ds, report |-> results]
        ELSE [analyzer |-> a, decisions |-> ds, report |-> a.analysis_results]

\* QuantumStateAnalyzer.analyze_randomness_quality called on the analyzer a
\* with the list ds: the analyzer and the list as the call leaves them, and
\* the dict it returns.
AnalyzeRandomnessQuality(a, ds) ==
    LET binary_sequence == BinarySequence(ds)
    IN  [analyzer  |-> a,
         decisions |-> ds,
         report    |->
            IF Len(ds) < 2 THEN <<>>
            ELSE [sequence_length |-> Len(binary_sequence),
                  runs_test       |-> RunsTest(binary_sequence),
                  frequency_test  |-> FrequencyTest(binary_sequence),
                  autocorrelation |-> AutocorrelationTest(binary_sequence, MaxLag),
                  entropy_rate    |-> EntropyRate(binary_sequence)]]

\* No call made on the analyzer yet.
NoAnalysis ==
    [op |-> "__init__", given |-> <<>>, raised |-> FALSE, report |-> <<>>,
     before |-> <<>>]

---------------------------------------------------------------------------
(* QuantumWalkSimulator: the dicts it reports.  A mean is an exact         *)
(* fraction; a standard deviation is kept as its square.                   *)

\* QuantumWalkSimulator.get_current_state
GetCurrentState(s) ==
    [state           |-> s.current_state,
     left_prob       |-> GetProbabilities(s.wavefunction).left,
     right_prob      |-> GetProbabilities(s.wavefunction).right,
     entropy         |-> CalculateEntropy(s.wavefunction),
     coherence       |-> CalculateCoherence(s.wavefunction),
     total_decisions |-> s.total_decisions,
     alpha           |-> Alpha(s.wavefunction),
     beta            |-> Beta(s.wavefunction)]

\* np.mean(h) if h else 0
MeanOf(h) == IF h = <<>> THEN [n |-> 0, d |-> 1] ELSE Frac(Sum(h), Len(h))

\* np.std(h) ** 2 if h else 0: the mean of the squares minus the square of
\* the mean.
VarianceOf(h) ==
    IF h = <<>> THEN [n |-> 0, d |-> 1]
    ELSE Frac(Len(h) * Sum([i \in 1..Len(h) |-> h[i] * h[i]]) - Sum(h) * Sum(h),
              Len(h) * Len(h))

\* QuantumWalkSimulator.get_statistics
GetStatistics(s) ==
    LET total      == Len(s.decision_history)
        left_count == Cardinality({i \in 1..total :
                                      s.decision_history[i].direction = "LEFT"})
    IN  IF s.decision_history = <<>> THEN <<>>
        ELSE [total_decisions |-> total,
              left_decisions  |-> left_count,
              right_decisions |-> total - left_count,
              left_fraction   |-> Frac(left_count, total),
              right_fraction  |-> Frac(total - left_count, total),
              mean_entropy    |-> MeanOf(s.entropy_history),
              mean_coherence  |-> MeanOf(s.coherence_history),
              entropy_std_squared   |-> VarianceOf(s.entropy_history),
              coherence_std_squared |-> VarianceOf(s.coherence_history)]

---------------------------------------------------------------------------
(* class QuantumDataLogger (src/src/utils/data_logger.py)                  *)
(* The SQLite database is modelled by its rows.  The missions table is a   *)
(* sequence: the AUTOINCREMENT id of a mission is its index, and no row is *)
(* ever deleted.  A row of the telemetry, quantum_events, positions and    *)
(* commands tables is modelled by its mission_id column.                   *)

\* self.current_mission_id = None, and the mission_id argument left out
NoMission == 0
\* start_mission is disabled once MaxMissions missions exist.
MaxMissions == 2
\* The four data tables hold at most MaxRows rows altogether.
MaxRows == 2

\* QuantumDataLogger.__init__ on a database file that did not exist
NewLogger ==
    [current_mission_id |-> NoMission,
     missions       |-> <<>>,
     telemetry      |-> <<>>,
     quantum_events |-> <<>>,
     positions      |-> <<>>,
     commands       |-> <<>>]

\* QuantumDataLogger.start_mission: the logger it leaves and the id returned
StartMission(l) ==
    LET mission_id == Len(l.missions) + 1
    IN  [logger |-> [l EXCEPT
                        !.missions = Append(@, [id |-> mission_id,
                                                status |-> "active"]),
                        !.current_mission_id = mission_id],
         result |-> mission_id]

\* UPDATE missions SET end_time = ?, status = 'completed' WHERE id = ?
CompleteMission(missions, mission_id) ==
    [i \in 1..Len(missions) |->
        IF missions[i].id = mission_id
        THEN [missions[i] EXCEPT !.status = "completed"]
        ELSE missions[i]]

\* An end_mission that never forgets the current mission.
EndMissionKeepingCurrent(l, mission_id) ==
    LET id == IF mission_id = NoMission THEN l.current_mission_id
              ELSE mission_id
    IN  IF id = NoMission THEN l
        ELSE [l EXCEPT !.missions = CompleteMission(l.missions, id)]

\* QuantumDataLogger.end_mission(mission_id), NoMission for no argument
EndMission(l, mission_id) ==
    LET id == IF mission_id = NoMission THEN l.current_mission_id
              ELSE mission_id
    IN  IF id = NoMission THEN l
        ELSE [l EXCEPT
                !.missions = CompleteMission(l.missions, id),
                !.current_mission_id =
                    IF id = l.current_mission_id THEN NoMission ELSE @]

\* QuantumDataLogger.log_telemetry
LogTelemetry(l) ==
    IF l.current_mission_id = NoMission THEN l
    ELSE [l EXCEPT !.telemetry = Append(@, l.current_mission_id)]

\* QuantumDataLogger.log_quantum_event(quantum_decision).  The argument is
\* read with quantum_decision.get(...): a dict is recorded, and any object
\* without a get method, such as a QuantumDecision, raises AttributeError
\* after the test of current_mission_id.
LogQuantumEvent(l, is_dict) ==
    IF l.current_mission_id = NoMission THEN [logger |-> l, raised |-> FALSE]
    ELSE IF ~is_dict THEN [logger |-> l, raised |-> TRUE]
    ELSE [logger |-> [l EXCEPT
                        !.quantum_events = Append(@, l.current_mission_id)],
          raised |-> FALSE]

\* QuantumDataLogger.log_position
LogPosition(l) ==
    IF l.current_mission_id = NoMission THEN l
    ELSE [l EXCEPT !.positions = Append(@, l.current_mission_id)]

\* QuantumDataLogger.log_command
LogCommand(l) ==
    IF l.current_mission_id = NoMission THEN l
    ELSE [l EXCEPT !.commands = Append(@, l.current_mission_id)]

\* The rows of the four data tables, counted.
RowCount(l) ==
    Len(l.telemetry) + Len(l.quantum_events) + Len(l.positions)
        + Len(l.commands)

NoLoggerCall == [op |-> "__init__", arg |-> NoMission, result |-> NoMission]

---------------------------------------------------------------------------
(* class TelemetryVisualizer (src/src/gui/telemetry_visualizer.py)         *)
(* A telemetry dict is a function on its keys; a key whose value is None   *)
(* is treated by the code as a key that is absent, and is modelled so.     *)
(* battery_voltage and motor_current are in tenths of a volt and of an     *)
(* ampere, temperature in degrees, rssi in dBm.                            *)

\* deque(maxlen=500) in the source; the model keeps the same code with a
\* capacity small enough to overflow within a run.
TelemetryMaxLen == 1
\* add_warning_callback is disabled once MaxCallbacks are registered.
MaxCallbacks == 2

\* self.warning_thresholds
WarningThresholds ==
    [battery_voltage |-> [low |-> 33, critical |-> 30],
     temperature     |-> [high |-> 60, critical |-> 70],
     motor_current   |-> [high |-> 15, critical |-> 20],
     rssi            |-> [weak |-> -80, critical |-> -90]]

\* The keys of self.telemetry_data fed by the readings of the model, in the
\* order the readings list them.
Metrics == <<"battery_voltage", "motor_current", "temperature", "rssi",
             "cpu_temp">>

\* The readings of test_telemetry_update: all nominal.
NominalReadings ==
    [battery_voltage |-> 37, motor_current |-> 5, temperature |-> 25,
     rssi |-> -45]

\* The dicts given to update_telemetry: the nominal one, each metric in turn
\* at and around its thresholds, and dicts of one key.
TelemetryInputs ==
    {NominalReadings}
    \cup {[NominalReadings EXCEPT !.battery_voltage = v] : v \in {30, 33, 34}}
    \cup {[NominalReadings EXCEPT !.temperature = v] : v \in {60, 70, 71}}
    \cup {[NominalReadings EXCEPT !.motor_current = v] : v \in {15, 20, 21}}
    \cup {[NominalReadings EXCEPT !.rssi = v] : v \in {-79, -80, -90}}
    \cup {"battery_voltage" :> 37, "battery_voltage" :> 33, "rssi" :> -45,
          "cpu_temp" :> 99}

\* TelemetryVisualizer.__init__; panel is set by setup_panel, which creates
\* plot_lines, canvas, stats_tree, warnings_text and raw_data_text.
NewVisualizer ==
    [panel          |-> FALSE,
     callbacks      |-> <<>>,
     timestamps     |-> <<>>,
     telemetry_data |-> [m \in {Metrics[i] : i \in 1..Len(Metrics)} |-> <<>>]]

\* deque.append on a deque(maxlen=TelemetryMaxLen)
DequeAppend(d, x) ==
    IF Len(d) < TelemetryMaxLen THEN Append(d, x) ELSE Append(Tail(d), x)

\* The if / elif chain of _check_warnings for one metric of
\* warning_thresholds: the kind of warning appended, "none" for no warning.
WarningOf(metric, value) ==
    LET thresholds == WarningThresholds[metric]
        has(k) == k \in DOMAIN thresholds
    IN  IF has("critical") /\ value <= thresholds.critical THEN "CRITICAL"
        ELSE IF has("high") /\ value >= thresholds.high THEN "high"
        ELSE IF has("low") /\ value <= thresholds.low THEN "low"
        ELSE IF has("weak") /\ value <= thresholds.weak THEN "weak"
        ELSE "none"

\* The warnings list of _check_warnings, in the order of the dict's keys.
WarningsOf(telemetry_data) ==
    LET warns(i) ==
            /\ Metrics[i] \in DOMAIN telemetry_data
            /\ Metrics[i] \in DOMAIN WarningThresholds
            /\ WarningOf(Metrics[i], telemetry_data[Metrics[i]]) # "none"
        kept == SelectSeq([i \in 1..Len(Metrics) |-> i], warns)
    IN  [k \in 1..Len(kept) |->
            [metric |-> Metrics[kept[k]],
             level  |-> WarningOf(Metrics[kept[k]],
                                  telemetry_data[Metrics[kept[k]]])]]

\* TelemetryVisualizer._check_warnings: the calls callback(warning) it
\* makes, in order: for each warning, each callback of self.callbacks.
CheckWarnings(v, telemetry_data) ==
    LET warnings == WarningsOf(telemetry_data)
        n == Len(v.callbacks)
    IN  [k \in 1..(Len(warnings) * n) |->
            [callback |-> v.callbacks[((k - 1) % n) + 1],
             metric   |-> warnings[((k - 1) \div n) + 1].metric,
             level    |-> warnings[((k - 1) \div n) + 1].level]]

\* TelemetryVisualizer.update_telemetry, time.time() returning t.  The data
\* is stored first; without the widgets of setup_panel the call then raises
\* AttributeError in _update_live_plots or _update_statistics, before
\* _check_warnings.
UpdateTelemetry(v, telemetry_data, t) ==
    LET stored ==
            [v EXCEPT
                !.timestamps = DequeAppend(@, t),
                !.telemetry_data =
                    [m \in DOMAIN @ |->
                        IF m \in DOMAIN telemetry_data
                        THEN DequeAppend(@[m], telemetry_data[m])
                        ELSE @[m]]]
    IN  IF ~v.panel
        THEN [visualizer |-> stored, raised |-> TRUE, calls |-> <<>>]
        ELSE [visualizer |-> stored, raised |-> FALSE,
              calls |-> CheckWarnings(v, telemetry_data)]

NoVisualizerCall ==
    [op |-> "__init__", data |-> <<>>, raised |-> FALSE, calls |-> <<>>]

---------------------------------------------------------------------------
(* class QuantumRobotGUI (src/src/gui/quantum_robot_gui.py): the robot     *)
(* connection, the quantum walk and its worker threads.  A worker is the   *)
(* thread start_quantum_walk creates; it runs quantum_walk_loop on the     *)
(* simulator and the data logger the GUI owns.  The handlers of the Tk     *)
(* main thread are taken as one step each; a worker advances by one        *)
(* statement of quantum_walk_loop and of make_quantum_decision at a time,  *)
(* the two halves of  self.total_decisions += 1  being separate steps.     *)
(* The socket is taken to accept every message while robot_connected.      *)

\* start_quantum_walk is disabled once MaxWorkers threads were created.
MaxWorkers == 2
\* stop_quantum_walk is disabled once MaxSent commands were sent.
MaxSent == 2

\* Values of the left_amplitude, right_amplitude, coherence_time and
\* quantum_noise sliders read by start_quantum_walk, in the units of Configs.
GuiConfigs == { <<707, 707, 1000, 0>>, <<600, 800, 1000, 100>> }

\* A thread created by start_quantum_walk, about to test the while
\* condition; its local variables are not assigned yet.
NewWorker ==
    [pc         |-> "while",
     left_prob  |-> [n |-> 0, d |-> 1],
     right_prob |-> [n |-> 0, d |-> 1],
     entropy    |-> 0,
     coherence  |-> 0,
     direction  |-> "None",
     decision   |-> <<>>,
     count      |-> 0]

\* The fields of QuantumRobotGUI.__init__ the walk uses
NewGui ==
    [robot_connected     |-> FALSE,
     quantum_walk_active |-> FALSE,
     sent                |-> <<>>,
     workers             |-> <<>>]

\* QuantumRobotGUI.send_command
SendCommand(g, command) ==
    IF ~g.robot_connected THEN g
    ELSE [g EXCEPT !.sent = Append(@, command)]

\* Positions of a worker inside make_quantum_decision
InsideDecision ==
    {"probabilities", "collapse", "decision", "current_state", "append",
     "count_load", "count_store", "reset"}

---------------------------------------------------------------------------
(* Calls on the simulator.                                                 *)

\* The random.gauss(0, noise_level * dt) draws are 0.0 when sigma is 0, and
\* are not made at all when noise_level <= 0 or on the first step.
NoiseAllowed(s, t, g) ==
    \/ \A j \in 1..4 : g[j] = 0
    \/ /\ s.last_decision_time > 0
       /\ s.noise_level > 0
       /\ t - s.last_decision_time > 0

WithinMaxAmp(w) ==
    \A x \in {w.ar, w.ai, w.br, w.bi} : Abs(x) <= MaxAmp

Tick ==
    /\ now < MaxTime
    /\ now' = now + 1
    /\ UNCHANGED <<sim, ret, wf1, wf2, ent, pret, analyzer, decisions, aret,
                 logger, lret, visualizer, vret, gui>>

InitializeAt(c) ==
    /\ sim' = Initialize(sim, c[1], c[2], c[3], c[4])
    /\ ret' = [op |-> "initialize", args |-> c,
               raised |-> FALSE, decision |-> <<>>, direction |-> "None", popped |-> 0]
    /\ UNCHANGED <<now, wf1, wf2, ent, pret, analyzer, decisions, aret,
                 logger, lret, visualizer, vret, gui>>

InitializeCall == \E c \in Configs : InitializeAt(c)

StepCall ==
    \E k \in PhaseDraws, g \in NoiseDraws :
        /\ NoiseAllowed(sim, now, g)
        /\ \/ k = 0
           \/ /\ sim.last_decision_time > 0
              /\ PhaseAllowed(k, sim.decoherence_rate, now - sim.last_decision_time)
        /\ sim' = Step(sim, now, k, g)
        /\ (\E j \in 1..4 : g[j] # 0) => WithinMaxAmp(sim'.wavefunction)
        /\ ret' = [op |-> "step", args |-> <<>>, raised |-> FALSE,
                   decision |-> <<>>, direction |-> "None",
                   popped |-> Popped(sim)]
        /\ UNCHANGED <<now, wf1, wf2, ent, pret, analyzer, decisions, aret,
                 logger, lret, visualizer, vret, gui>>

DecisionAt(r) ==
    /\ sim.total_decisions < MaxDecisions
    /\ sim' = MakeQuantumDecision(sim, r, now)
    /\ ret' = [op |-> "make_quantum_decision", args |-> <<>>,
               raised |-> FALSE, decision |-> <<Decision(sim, r, now)>>,
               direction |-> "None", popped |-> 0]
    /\ UNCHANGED <<now, wf1, wf2, ent, pret, analyzer, decisions, aret,
                 logger, lret, visualizer, vret, gui>>

DecisionCall == \E r \in RandomDraws : DecisionAt(r)

\* No EntangledState yet.
NoEntangledState ==
    [made |-> FALSE, wf1 |-> "None", wf2 |-> "None", entanglement_strength |-> 0]

NoCall ==
    [op |-> "__init__", args |-> <<>>, raised |-> FALSE, decision |-> <<>>,
     direction |-> "None", popped |-> 0]

Init ==
    /\ sim = NewSimulator
    /\ now = 1
    /\ ret = NoCall
    /\ wf1 = NewWavefunction(Superposition707, Superposition707)
    /\ wf2 = NewWavefunction(Superposition707, Superposition707)
    /\ ent = NoEntangledState
    /\ pret = [op |-> "__init__", draw |-> 0, result |-> <<>>]
    /\ analyzer = NewAnalyzer
    /\ decisions = <<>>
    /\ aret = NoAnalysis
    /\ logger = NewLogger
    /\ lret = NoLoggerCall
    /\ visualizer = NewVisualizer
    /\ vret = NoVisualizerCall
    /\ gui = NewGui

\* simulator.reset_to_superposition() called by the owner of the simulator
ResetCall ==
    /\ sim' = ResetToSuperposition(sim)
    /\ ret' = [op |-> "reset_to_superposition", args |-> <<>>,
               raised |-> FALSE, decision |-> <<>>, direction |-> "None", popped |-> 0]
    /\ UNCHANGED <<now, wf1, wf2, ent, pret, analyzer, decisions, aret,
                 logger, lret, visualizer, vret, gui>>

Next == Tick \/ InitializeCall \/ StepCall \/ DecisionCall

Spec == Init /\ [][Next]_vars

---------------------------------------------------------------------------
(* The simulator's wavefunction used directly: simulator.wavefunction is   *)
(* a public attribute, and collapse() can be called on it.                 *)

\* simulator.wavefunction.collapse() with _quantum_random() returning r
CollapseAt(r) ==
    /\ sim' = [sim EXCEPT !.wavefunction = Collapse(sim.wavefunction, r).wf]
    /\ ret' = [op |-> "collapse", args |-> <<>>, raised |-> FALSE,
               decision |-> <<>>,
               direction |-> Collapse(sim.wavefunction, r).direction,
               popped |-> 0]
    /\ UNCHANGED <<now, wf1, wf2, ent, pret, analyzer, decisions, aret,
                 logger, lret, visualizer, vret, gui>>

CollapseCall == \E r \in RandomDraws : CollapseAt(r)

WfNext == Tick \/ InitializeCall \/ StepCall \/ ResetCall \/ CollapseCall

WfSpec == Init /\ [][WfNext]_vars

---------------------------------------------------------------------------
(* class EntangledState, over two wavefunctions of the caller.             *)

\* Arguments <<alpha, beta>> given to QuantumWavefunction(alpha, beta), in
\* thousandths.
WavefunctionInputs ==
    { <<Superposition707, Superposition707>>, <<600, 800>>, <<1000, 0>>,
      <<0, 1000>>, <<0, 0>>, <<-600, 800>> }

\* The wavefunction objects of the caller, by name: a reference to one of
\* them is its name.
Wavefunctions == {"wf1", "wf2"}

\* An EntangledState that keeps its two references the other way round.
NewEntangledStateSwapped(wavefunction1, wavefunction2) ==
    [made |-> TRUE, wf1 |-> wavefunction2, wf2 |-> wavefunction1,
     entanglement_strength |-> 1]

\* EntangledState.__init__: the pair keeps the two references it is given
\* and a strength of 1.0.
NewEntangledState(wavefunction1, wavefunction2) ==
    [made |-> TRUE, wf1 |-> wavefunction1, wf2 |-> wavefunction2,
     entanglement_strength |-> 1]

\* QuantumWavefunction.entangle_with
EntangleWith(self, other_wavefunction) ==
    NewEntangledState(self, other_wavefunction)

\* A measurement whose second branch repeats the first robot's direction.
MeasureBothSameOnRight(r) ==
    IF 2 * r < RandomRange THEN <<"LEFT", "RIGHT">> ELSE <<"RIGHT", "RIGHT">>

\* A measurement that consults the strength: once the entanglement is
\* broken the two directions are no longer tied to each other.
MeasureBothWhileEntangled(r) ==
    IF ent.entanglement_strength = 0 THEN <<"LEFT", "LEFT">>
    ELSE IF 2 * r < RandomRange THEN <<"LEFT", "RIGHT">>
    ELSE <<"RIGHT", "LEFT">>

\* EntangledState.measure_both with wf1._quantum_random() returning r
MeasureBoth(r) ==
    IF 2 * r < RandomRange THEN <<"LEFT", "RIGHT">> ELSE <<"RIGHT", "LEFT">>

\* EntangledState.break_entanglement
BreakEntanglement(e) == [e EXCEPT !.entanglement_strength = 0]

\* self.entangle_with(other); the record of the call keeps its operands.
EntangleWithCall ==
    \E self \in Wavefunctions, other \in Wavefunctions :
    /\ ent' = EntangleWith(self, other)
    /\ pret' = [op |-> "entangle_with", draw |-> 0, result |-> <<self, other>>]
    /\ UNCHANGED <<sim, now, ret, wf1, wf2, analyzer, decisions, aret,
                 logger, lret, visualizer, vret, gui>>

MeasureBothCall ==
    \E r \in RandomDraws :
        /\ ent.made
        /\ pret' = [op |-> "measure_both", draw |-> r, result |-> MeasureBoth(r)]
        /\ UNCHANGED <<sim, now, ret, wf1, wf2, ent, analyzer, decisions, aret,
                 logger, lret, visualizer, vret, gui>>

BreakEntanglementCall ==
    /\ ent.made
    /\ ent' = BreakEntanglement(ent)
    /\ pret' = [op |-> "break_entanglement", draw |-> 0, result |-> <<>>]
    /\ UNCHANGED <<sim, now, ret, wf1, wf2, analyzer, decisions, aret,
                 logger, lret, visualizer, vret, gui>>

\* wf1.collapse() / wf2.collapse() called by the owner of the wavefunctions
Wf1CollapseCall ==
    \E r \in RandomDraws :
        /\ wf1' = Collapse(wf1, r).wf
        /\ pret' = [op |-> "wf1.collapse", draw |-> r,
                    result |-> <<Collapse(wf1, r).direction>>]
        /\ UNCHANGED <<sim, now, ret, wf2, ent, analyzer, decisions, aret,
                 logger, lret, visualizer, vret, gui>>

Wf2CollapseCall ==
    \E r \in RandomDraws :
        /\ wf2' = Collapse(wf2, r).wf
        /\ pret' = [op |-> "wf2.collapse", draw |-> r,
                    result |-> <<Collapse(wf2, r).direction>>]
        /\ UNCHANGED <<sim, now, ret, wf1, ent, analyzer, decisions, aret,
                 logger, lret, visualizer, vret, gui>>

PairInit ==
    /\ sim = NewSimulator
    /\ now = 1
    /\ ret = NoCall
    /\ \E a \in WavefunctionInputs : wf1 = NewWavefunction(a[1], a[2])
    /\ \E b \in WavefunctionInputs : wf2 = NewWavefunction(b[1], b[2])
    /\ ent = NoEntangledState
    /\ pret = [op |-> "__init__", draw |-> 0, result |-> <<>>]
    /\ analyzer = NewAnalyzer
    /\ decisions = <<>>
    /\ aret = NoAnalysis
    /\ logger = NewLogger
    /\ lret = NoLoggerCall
    /\ visualizer = NewVisualizer
    /\ vret = NoVisualizerCall
    /\ gui = NewGui

PairNext ==
    \/ EntangleWithCall
    \/ MeasureBothCall
    \/ BreakEntanglementCall
    \/ Wf1CollapseCall
    \/ Wf2CollapseCall

PairSpec == PairInit /\ [][PairNext]_vars

---------------------------------------------------------------------------
(* Calls on the analyzer.                                                  *)

\* analyzer.analyze_randomness_quality(ds).  The record of the call keeps
\* the argument and the report of one earlier call, any of them: the one
\* made just before, or the one the record before kept.
AnalyzeAt(ds) ==
    LET out == AnalyzeRandomnessQuality(analyzer, ds)
    IN  /\ analyzer' = out.analyzer
        /\ decisions' = out.decisions
        /\ \E earlier \in
                {aret.before} \cup
                (IF aret.op = "__init__" THEN {}
                 ELSE {<<[given |-> aret.given, report |-> aret.report]>>}) :
              aret' = [op |-> "analyze_randomness_quality", given |-> ds,
                       raised |-> FALSE, report |-> out.report,
                       before |-> earlier]
        /\ UNCHANGED <<sim, now, ret, wf1, wf2, ent, pret,
                 logger, lret, visualizer, vret, gui>>

AnalyzeCall == \E ds \in DecisionLists : AnalyzeAt(ds)

AnalyzerNext == AnalyzeCall

AnalyzerSpec == Init /\ [][AnalyzerNext]_vars

---------------------------------------------------------------------------
(* Calls on the data logger.                                               *)

\* The record of a call: its argument, and its result, which is the id
\* returned by start_mission and the number of rows recorded by a log_* call.
LoggerCalled(l, op, arg, result) ==
    /\ logger' = l
    /\ lret' = [op |-> op, arg |-> arg, result |-> result]
    /\ UNCHANGED <<sim, now, ret, wf1, wf2, ent, pret, analyzer, decisions,
                   aret, visualizer, vret, gui>>

\* May a log_* call be made: the data tables are not full, or the call
\* records nothing.
MayLog == logger.current_mission_id = NoMission \/ RowCount(logger) < MaxRows

StartMissionCall ==
    /\ Len(logger.missions) < MaxMissions
    /\ LoggerCalled(StartMission(logger).logger, "start_mission", NoMission,
                    StartMission(logger).result)

\* end_mission() and end_mission(id), for the ids of the missions that
\* exist and one that does not
EndMissionCall ==
    \E mission_id \in {NoMission} \cup 1..(MaxMissions + 1) :
        LoggerCalled(EndMission(logger, mission_id), "end_mission",
                     mission_id, NoMission)

LogTelemetryCall ==
    MayLog /\ LoggerCalled(LogTelemetry(logger), "log_telemetry", NoMission,
                           RowCount(LogTelemetry(logger)) - RowCount(logger))

\* log_quantum_event(d) with a dict d
LogQuantumEventCall ==
    MayLog /\ LoggerCalled(LogQuantumEvent(logger, TRUE).logger,
                           "log_quantum_event", NoMission,
                           RowCount(LogQuantumEvent(logger, TRUE).logger)
                               - RowCount(logger))

LogPositionCall ==
    MayLog /\ LoggerCalled(LogPosition(logger), "log_position", NoMission,
                           RowCount(LogPosition(logger)) - RowCount(logger))

LogCommandCall ==
    MayLog /\ LoggerCalled(LogCommand(logger), "log_command", NoMission,
                           RowCount(LogCommand(logger)) - RowCount(logger))

LoggerNext ==
    \/ StartMissionCall
    \/ EndMissionCall
    \/ LogTelemetryCall
    \/ LogQuantumEventCall
    \/ LogPositionCall
    \/ LogCommandCall

LoggerSpec == Init /\ [][LoggerNext]_vars

---------------------------------------------------------------------------
(* Calls on the telemetry visualizer.                                      *)

VisualizerCalled(v, op, data, raised, calls) ==
    /\ visualizer' = v
    /\ vret' = [op |-> op, data |-> data, raised |-> raised, calls |-> calls]
    /\ UNCHANGED <<sim, now, ret, wf1, wf2, ent, pret, analyzer, decisions,
                   aret, logger, lret, gui>>

\* visualizer.setup_panel(parent_frame)
SetupPanelCall ==
    VisualizerCalled([visualizer EXCEPT !.panel = TRUE], "setup_panel",
                     <<>>, FALSE, <<>>)

\* visualizer.add_warning_callback(callback), the callbacks being numbered
\* in the order they are registered
AddWarningCallbackCall ==
    /\ Len(visualizer.callbacks) < MaxCallbacks
    /\ VisualizerCalled(
          [visualizer EXCEPT !.callbacks = Append(@, Len(@) + 1)],
          "add_warning_callback", <<>>, FALSE, <<>>)

UpdateTelemetryCall ==
    \E telemetry_data \in TelemetryInputs :
        LET out == UpdateTelemetry(visualizer, telemetry_data, now)
        IN  VisualizerCalled(out.visualizer, "update_telemetry",
                             telemetry_data, out.raised, out.calls)

VisualizerNext ==
    \/ SetupPanelCall
    \/ AddWarningCallbackCall
    \/ UpdateTelemetryCall

VisualizerSpec == Init /\ [][VisualizerNext]_vars

---------------------------------------------------------------------------
(* The GUI: handlers of the main thread and steps of the worker threads.   *)

GuiUnchanged ==
    UNCHANGED <<now, ret, wf1, wf2, ent, pret, analyzer, decisions, aret,
                logger, lret, visualizer, vret>>

\* connect_robot, the connection being accepted
ConnectRobot ==
    /\ gui' = [gui EXCEPT !.robot_connected = TRUE]
    /\ UNCHANGED sim
    /\ GuiUnchanged

\* disconnect_robot
DisconnectRobot ==
    /\ gui' = [gui EXCEPT !.robot_connected = FALSE]
    /\ UNCHANGED sim
    /\ GuiUnchanged

\* start_quantum_walk with the sliders at c
StartQuantumWalkAt(c) ==
    /\ Len(gui.workers) < MaxWorkers
    /\ IF ~gui.robot_connected
       THEN UNCHANGED <<gui, sim>>
       ELSE /\ sim' = Initialize(sim, c[1], c[2], c[3], c[4])
            /\ gui' = [gui EXCEPT !.quantum_walk_active = TRUE,
                                  !.workers = Append(@, NewWorker)]
    /\ GuiUnchanged

StartQuantumWalk == \E c \in GuiConfigs : StartQuantumWalkAt(c)

\* stop_quantum_walk
StopQuantumWalk ==
    /\ ~gui.robot_connected \/ Len(gui.sent) < MaxSent
    /\ gui' = SendCommand([gui EXCEPT !.quantum_walk_active = FALSE], "STOP")
    /\ UNCHANGED sim
    /\ GuiUnchanged

\* Worker i, at position pc, assigns its own variables as in w and moves on
\* to position next, leaving the simulator as s.
WorkerStep(i, pc, w, next, s) ==
    /\ i \in 1..Len(gui.workers)
    /\ gui.workers[i].pc = pc
    /\ gui' = [gui EXCEPT !.workers[i] = [w EXCEPT !.pc = next]]
    /\ sim' = s
    /\ GuiUnchanged

\* while self.quantum_walk_active:
WorkerWhile(i) ==
    /\ i \in 1..Len(gui.workers)
    /\ WorkerStep(i, "while", gui.workers[i],
                  IF gui.quantum_walk_active THEN "probabilities" ELSE "done",
                  sim)

\* make_quantum_decision: left_prob, right_prob, entropy and coherence
WorkerProbabilities(i) ==
    /\ i \in 1..Len(gui.workers)
    /\ WorkerStep(i, "probabilities",
                  [gui.workers[i] EXCEPT
                      !.left_prob  = GetProbabilities(sim.wavefunction).left,
                      !.right_prob = GetProbabilities(sim.wavefunction).right,
                      !.entropy    = CalculateEntropy(sim.wavefunction),
                      !.coherence  = CalculateCoherence(sim.wavefunction)],
                  "collapse", sim)

\* make_quantum_decision: direction = self.wavefunction.collapse()
WorkerCollapse(i) ==
    \E r \in RandomDraws :
        /\ i \in 1..Len(gui.workers)
        /\ WorkerStep(i, "collapse",
                      [gui.workers[i] EXCEPT
                          !.direction = Collapse(sim.wavefunction, r).direction],
                      "decision",
                      [sim EXCEPT
                          !.wavefunction = Collapse(sim.wavefunction, r).wf])

\* make_quantum_decision: decision = QuantumDecision(...)
WorkerDecision(i) ==
    /\ i \in 1..Len(gui.workers)
    /\ LET w == gui.workers[i]
       IN  WorkerStep(i, "decision",
                [w EXCEPT !.decision =
                    <<[direction       |-> w.direction,
                       probability     |-> IF w.direction = "LEFT"
                                           THEN w.left_prob ELSE w.right_prob,
                       amplitude_left  |-> Alpha(sim.wavefunction),
                       amplitude_right |-> Beta(sim.wavefunction),
                       entropy         |-> w.entropy,
                       coherence       |-> w.coherence,
                       timestamp       |-> now]>>],
                "current_state", sim)

\* make_quantum_decision: self.current_state = ...
WorkerCurrentState(i) ==
    /\ i \in 1..Len(gui.workers)
    /\ WorkerStep(i, "current_state", gui.workers[i], "append",
                  [sim EXCEPT !.current_state =
                      CollapsedState(gui.workers[i].direction)])

\* make_quantum_decision: self.decision_history.append(decision)
WorkerAppend(i) ==
    /\ i \in 1..Len(gui.workers)
    /\ WorkerStep(i, "append", gui.workers[i], "count_load",
                  [sim EXCEPT !.decision_history =
                      Append(@, gui.workers[i].decision[1])])

\* make_quantum_decision: self.total_decisions += 1, the value read
WorkerCountLoad(i) ==
    /\ i \in 1..Len(gui.workers)
    /\ WorkerStep(i, "count_load",
                  [gui.workers[i] EXCEPT !.count = sim.total_decisions],
                  "count_store", sim)

\* make_quantum_decision: self.total_decisions += 1, the sum written
WorkerCountStore(i) ==
    /\ i \in 1..Len(gui.workers)
    /\ WorkerStep(i, "count_store", gui.workers[i], "reset",
                  [sim EXCEPT !.total_decisions = gui.workers[i].count + 1])

\* make_quantum_decision: self.reset_to_superposition(); return decision
WorkerReset(i) ==
    /\ i \in 1..Len(gui.workers)
    /\ WorkerStep(i, "reset", gui.workers[i], "log",
                  ResetToSuperposition(sim))

\* quantum_walk_loop after the decision: log_quantum_event(decision) records
\* nothing without a current mission and raises AttributeError with one;
\* then decision['direction'] raises TypeError, a QuantumDecision not being
\* subscriptable.  Either exception is caught by the except clause, which
\* prints it and leaves the loop: no command is sent, and the thread ends.
WorkerLog(i) ==
    /\ i \in 1..Len(gui.workers)
    /\ LogQuantumEvent(logger, FALSE).logger = logger
    /\ WorkerStep(i, "log", gui.workers[i], "done", sim)

WorkerNext(i) ==
    \/ WorkerWhile(i)
    \/ WorkerProbabilities(i)
    \/ WorkerCollapse(i)
    \/ WorkerDecision(i)
    \/ WorkerCurrentState(i)
    \/ WorkerAppend(i)
    \/ WorkerCountLoad(i)
    \/ WorkerCountStore(i)
    \/ WorkerReset(i)
    \/ WorkerLog(i)

GuiNext ==
    \/ ConnectRobot
    \/ DisconnectRobot
    \/ StartQuantumWalk
    \/ StopQuantumWalk
    \/ \E i \in 1..MaxWorkers : WorkerNext(i)

GuiSpec == Init /\ [][GuiNext]_vars

---------------------------------------------------------------------------
(* Claims C1 .. C10.                                                       *)

LastDecision == ret.decision[1]

\* C1: decision_history holds at most max_history records in every
\* reachable state of the walk engine (the oldest is evicted on overflow).
C1_DecisionHistoryBounded == Len(sim.decision_history) <= MaxHistory

\* C2: between two engine calls the engine state is SUPERPOSITION, never a
\* collapsed state, and whenever make_quantum_decision has returned the
\* amplitude pair is exactly (0.707+0i, 0.707+0i), whatever it was before.
C2_DecisionReturnsToSuperposition ==
    /\ sim.current_state = "SUPERPOSITION"
    /\ ret.op = "make_quantum_decision" =>
          sim.wavefunction =
              [ar |-> 707, ai |-> 0, br |-> 707, bi |-> 0, den |-> 1000000]

\* C2's case: a decision taken from a pair that was not the equal
\* superposition (p_left = 9/25) has returned.
C2_Witness ==
    /\ ret.op = "make_quantum_decision"
    /\ LastDecision.direction = "LEFT"
    /\ LastDecision.probability = [n |-> 9, d |-> 25]

\* C3: after every engine operation |alpha|^2 + |beta|^2 is within 1e-6 of
\* 1, unless both amplitudes are exactly zero.
C3_NormalizedWithinTolerance ==
    LET w == sim.wavefunction
        N == AlphaSq(w) + BetaSq(w)
    IN  \/ N = 0
        \/ Abs(N - w.den) <= w.den \div 1000000

\* C4: initialize called with coherence_time <= 0 fails with a
\* ConfigurationError; it never completes normally.
C4_NonPositiveCoherenceTimeRaises ==
    (ret.op = "initialize" /\ ret.args[3] <= 0) => ret.raised

AmplitudeInRange(a) == 0 <= a /\ a <= 1000

\* C5: initialize called with an amplitude outside [0,1] fails with a
\* ConfigurationError and installs no out-of-range amplitude.
C5_OutOfRangeAmplitudeRaises ==
    (/\ ret.op = "initialize"
     /\ ~(AmplitudeInRange(ret.args[1]) /\ AmplitudeInRange(ret.args[2])))
    => (ret.raised /\ sim.wavefunction.ar >= 0 /\ sim.wavefunction.br >= 0)

InvalidConfig(c) ==
    \/ c[3] <= 0
    \/ ~AmplitudeInRange(c[1])
    \/ ~AmplitudeInRange(c[2])

\* C6: an initialize call given an invalid configuration leaves every field
\* of the engine as it was before the call.
C6_InvalidInitializeChangesNothing ==
    [][\A c \in Configs : (InvalidConfig(c) /\ InitializeAt(c)) => sim' = sim]_vars

\* C7: after collapse() exactly one of |alpha|, |beta| is 1 and the other
\* is 0, and the direction returned names the amplitude set to 1+0i.
C7_CollapseLeavesBasisState ==
    ret.op = "collapse" =>
        LET w == sim.wavefunction
        IN  \/ /\ ret.direction = "LEFT"
               /\ Alpha(w) = [re |-> 1, im |-> 0, den |-> 1]
               /\ AlphaSq(w) = w.den /\ BetaSq(w) = 0
            \/ /\ ret.direction = "RIGHT"
               /\ Beta(w) = [re |-> 1, im |-> 0, den |-> 1]
               /\ BetaSq(w) = w.den /\ AlphaSq(w) = 0

\* C7's case: a collapse() that chose RIGHT has returned.
C7_Witness == ret.op = "collapse" /\ ret.direction = "RIGHT"

\* r / 1000000 < p.n / p.d, by long division of p.n * 1000000 by p.d.
BelowProbability(r, p) ==
    LET q1 == (p.n * 1000) \div p.d
        r1 == (p.n * 1000) % p.d
        fl == q1 * 1000 + (r1 * 1000) \div p.d
    IN  IF (r1 * 1000) % p.d = 0 THEN r < fl ELSE r <= fl

CertainLeft(w) ==
    GetProbabilities(w) = [left |-> [n |-> 1, d |-> 1], right |-> [n |-> 0, d |-> 1]]

\* C8: collapse() returns LEFT exactly when the draw r satisfies
\* r < p_left; after initialize(1.0, 0.0, 1.0, 0) the probabilities are
\* (1.0, 0.0), and from a pair with these probabilities every collapse()
\* returns LEFT and leaves such a pair, however often it is repeated.
C8_CollapseFollowsDraw ==
    [][/\ \A r \in RandomDraws :
             CollapseAt(r) =>
                 /\ (ret'.direction = "LEFT")
                        <=> BelowProbability(r, GetProbabilities(sim.wavefunction).left)
                 /\ CertainLeft(sim.wavefunction) =>
                        (ret'.direction = "LEFT" /\ CertainLeft(sim'.wavefunction))
       /\ InitializeAt(<<1000, 0, 1000, 0>>) => CertainLeft(sim'.wavefunction)
      ]_vars

\* C8's case: after initialize(1.0, 0.0, 1.0, 0) a collapse() has returned
\* LEFT with the pair still certain to give LEFT.
C8_Witness ==
    /\ ret.op = "collapse"
    /\ ret.direction = "LEFT"
    /\ sim.coherence_time = 1000 /\ sim.noise_level = 0
    /\ sim.last_decision_time = 0
    /\ CertainLeft(sim.wavefunction)

\* C9: every measure_both() returns (LEFT, RIGHT) or (RIGHT, LEFT): the
\* two directions differ for every draw.
C9_MeasureBothAntiCorrelated ==
    pret.op = "measure_both" =>
        /\ pret.result \in {<<"LEFT", "RIGHT">>, <<"RIGHT", "LEFT">>}
        /\ pret.result[1] # pret.result[2]

\* C9's case: a measure_both() has returned (RIGHT, LEFT).
C9_Witness == pret.op = "measure_both" /\ pret.result = <<"RIGHT", "LEFT">>

\* C10: make_quantum_decision appends exactly one record, the one it
\* returns, to decision_history; its probability, entropy and coherence are
\* those of the pair as it was before the collapse, the probability being
\* that of the direction chosen.
C10_DecisionRecordsPreCollapseValues ==
    [][(/\ sim'.total_decisions # sim.total_decisions
        /\ \E r \in RandomDraws : DecisionAt(r)) =>
              LET d == ret'.decision[1]
                  w == sim.wavefunction
                  p == GetProbabilities(w)
              IN  /\ Len(ret'.decision) = 1
                  /\ sim'.decision_history = Append(sim.decision_history, d)
                  /\ d.direction \in {"LEFT", "RIGHT"}
                  /\ d.probability = IF d.direction = "LEFT" THEN p.left ELSE p.right
                  /\ d.entropy = CalculateEntropy(w)
                  /\ d.coherence = CalculateCoherence(w)
      ]_vars

\* C10's case: a decision RIGHT taken from the pair (0.6, 0.8) is the last
\* record of the history, with the entropy and coherence of that pair.
C10_Witness ==
    /\ ret.op = "make_quantum_decision"
    /\ Len(sim.decision_history) >= 1
    /\ sim.decision_history[Len(sim.decision_history)] = LastDecision
    /\ LastDecision.direction = "RIGHT"
    /\ LastDecision.probability = [n |-> 16, d |-> 25]
    /\ LastDecision.entropy > 0
    /\ LastDecision.coherence = 480

---------------------------------------------------------------------------
(* Claims C11 .. C20.                                                      *)

\* C11: whenever initialize has returned, whatever the engine held before,
\* decision_history, entropy_history and coherence_history are empty and
\* current_state is SUPERPOSITION.
C11_InitializeClearsHistories ==
    ret.op = "initialize" =>
        /\ sim.decision_history = <<>>
        /\ sim.entropy_history = <<>>
        /\ sim.coherence_history = <<>>
        /\ sim.current_state = "SUPERPOSITION"

\* C11's case: initialize has returned on an engine that had taken
\* decisions and steps before the call.
C11_Witness ==
    /\ ret.op = "initialize"
    /\ sim.total_decisions > 0
    /\ sim.last_decision_time > 0
    /\ sim.decision_history = <<>>

\* A step of the model that is a step call: ret names the last call made,
\* and the clock does not move during a call.
AnyStep == now' = now /\ ret'.op = "step"

\* A step call that has evicted an entry from the histories.
OverflowingStep == AnyStep /\ ret'.popped = 1

AppendedOne ==
    /\ Len(sim'.entropy_history) + ret'.popped = Len(sim.entropy_history) + 1
    /\ Len(sim'.coherence_history) + ret'.popped = Len(sim.coherence_history) + 1
    /\ sim'.entropy_history[Len(sim'.entropy_history)] =
           CalculateEntropy(sim'.wavefunction)
    /\ sim'.coherence_history[Len(sim'.coherence_history)] =
           CalculateCoherence(sim'.wavefunction)

\* The pair the step leaves is the former pair evolved over the time since
\* the previous step, for some outcome of the random draws.
Evolved ==
    \E k \in PhaseDraws, g \in NoiseDraws :
        sim'.wavefunction =
            EvolveQuantumState(sim, now - sim.last_decision_time, k, g).wavefunction

AssignedStates == {"SUPERPOSITION", "LEFT_COLLAPSED", "RIGHT_COLLAPSED"}

\* C14: current_state is never ENTANGLED, neither between two calls on the
\* engine nor inside make_quantum_decision between the collapse and the
\* reset that ends it.
C14_EntangledUnreachable ==
    /\ sim.current_state # "ENTANGLED"
    /\ sim.current_state \in AssignedStates
    /\ \A direction \in {"LEFT", "RIGHT"} :
          /\ CollapsedState(direction) # "ENTANGLED"
          /\ CollapsedState(direction) \in AssignedStates
    /\ ret.op = "make_quantum_decision" =>
          LastDecision.direction \in {"LEFT", "RIGHT"}

\* C14's case: the engine has been initialised, stepped and has taken every
\* decision the bound allows, the last one being RIGHT.
C14_Witness ==
    /\ ret.op = "make_quantum_decision"
    /\ LastDecision.direction = "RIGHT"
    /\ sim.total_decisions = MaxDecisions
    /\ sim.last_decision_time > 0
    /\ sim.coherence_time # 1000
    /\ sim.current_state = "SUPERPOSITION"

Analyzed == aret.op = "analyze_randomness_quality"

\* The binary sequence of the list given to the last analysis.
GivenBits == [i \in 1..Len(aret.given) |->
                 IF aret.given[i].direction = "LEFT" THEN 1 ELSE 0]

\* C15: an analysis of fewer than 2 decisions returns, without raising, a
\* report with an insufficient-data status in it.
C15_ShortListReportsInsufficientData ==
    (Analyzed /\ Len(aret.given) < 2) =>
        /\ ~aret.raised
        /\ \E k \in DOMAIN aret.report :
              k \in {"status", "result"} /\ aret.report[k] = "insufficient_data"

\* All the decisions of the list given have the same direction.
AllIdentical ==
    \A i, j \in 1..Len(aret.given) :
        aret.given[i].direction = aret.given[j].direction

\* C16: for a list of 2 decisions or more the runs test is returned without
\* raising, and its result is "degenerate" exactly when all the directions
\* are identical.
C16_DegenerateIffAllIdentical ==
    (Analyzed /\ Len(aret.given) >= 2) =>
        /\ ~aret.raised
        /\ "runs_test" \in DOMAIN aret.report
        /\ (aret.report.runs_test.result = "degenerate") <=> AllIdentical

\* C16's case: the analysis of [1]*20 has returned a degenerate runs test.
C16_Witness ==
    /\ Analyzed
    /\ aret.given = AllOf(2 * MaxLag, "LEFT")
    /\ aret.report.runs_test = [test |-> "runs", result |-> "degenerate"]

\* The positions where a maximal constant subsequence starts.
RunStarts == {i \in 1..Len(GivenBits) : i = 1 \/ GivenBits[i] # GivenBits[i-1]}

\* Each decision differs from the one before it.
StrictlyAlternating ==
    \A i \in 2..Len(aret.given) :
        aret.given[i].direction # aret.given[i-1].direction

\* C17: when the runs test is not degenerate, runs_observed is the number
\* of maximal constant subsequences, 1 plus the number of adjacent
\* positions that differ; it is n for a strictly alternating list of n.
C17_RunsObservedCountsRuns ==
    (/\ Analyzed
     /\ Len(aret.given) >= 2
     /\ aret.report.runs_test.result # "degenerate") =>
        /\ aret.report.runs_test.runs_observed = Cardinality(RunStarts)
        /\ aret.report.runs_test.runs_observed =
              1 + Cardinality({i \in 2..Len(GivenBits) :
                                  GivenBits[i] # GivenBits[i-1]})
        /\ StrictlyAlternating =>
              aret.report.runs_test.runs_observed = Len(aret.given)

\* C17's case: the analysis of [1,0]*10 has returned 20 runs.
C17_Witness ==
    /\ Analyzed
    /\ aret.given = Alternating(2 * MaxLag)
    /\ aret.report.runs_test.runs_observed = 2 * MaxLag
    /\ aret.report.runs_test.result # "degenerate"

\* min(10, floor(n/2))
LagsClaimed(n) == IF MaxLag < n \div 2 THEN MaxLag ELSE n \div 2

\* C18: for a list of n >= 2 decisions the autocorrelation test returns the
\* autocorrelations at the lags 1 .. min(10, floor(n/2)), one per lag, and
\* its result is random or correlated according to their largest absolute
\* value.
C18_AutocorrelationLags ==
    (Analyzed /\ Len(aret.given) >= 2) =>
        LET ac == aret.report.autocorrelation
        IN  /\ "autocorrelations" \in DOMAIN ac
            /\ DOMAIN ac.autocorrelations = 1..LagsClaimed(Len(aret.given))
            /\ \A lag \in 1..LagsClaimed(Len(aret.given)) :
                  ac.autocorrelations[lag] = Autocorrelation(GivenBits, lag)
            /\ ac.result = IF 5 * ac.max_autocorrelation.n
                                < ac.max_autocorrelation.d
                           THEN "random" ELSE "correlated"

AmplitudesOf(ref, w1, w2) == IF ref = "wf1" THEN w1 ELSE w2

\* C20: entangle_with leaves the amplitudes of both operands as they were
\* and returns an EntangledState whose wf1 is the wavefunction it was called
\* on, whose wf2 is the argument, and whose entanglement_strength is 1.
C20_EntangleWithKeepsOperands ==
    [][(pret'.op = "entangle_with" /\ EntangleWithCall) =>
          LET self  == pret'.result[1]
              other == pret'.result[2]
          IN  /\ AmplitudesOf(self, wf1', wf2') = AmplitudesOf(self, wf1, wf2)
              /\ AmplitudesOf(other, wf1', wf2') = AmplitudesOf(other, wf1, wf2)
              /\ wf1' = wf1 /\ wf2' = wf2
              /\ ent'.made
              /\ ent'.wf1 = self
              /\ ent'.wf2 = other
              /\ ent'.entanglement_strength = 1
      ]_vars

\* C20's case: wf2.entangle_with(wf1) has returned, wf1 being the pair
\* (0.6, 0.8) and wf2 a collapsed pair.
C20_Witness ==
    /\ pret.op = "entangle_with"
    /\ pret.result = <<"wf2", "wf1">>
    /\ ent.wf1 = "wf2" /\ ent.wf2 = "wf1"
    /\ ent.entanglement_strength = 1
    /\ wf1 = [ar |-> 3, ai |-> 0, br |-> 4, bi |-> 0, den |-> 25]
    /\ wf2 \in {LeftBasis, RightBasis}

---------------------------------------------------------------------------
(* Claims C21 .. C30.                                                      *)

\* C21: a measure_both() call leaves entanglement_strength and the
\* amplitudes of both wavefunctions as they were, and returns (LEFT, RIGHT)
\* or (RIGHT, LEFT) whatever the strength is, 0 after break_entanglement()
\* included.
C21_MeasureBothIgnoresStrength ==
    [][pret'.op = "measure_both" =>
          /\ ent' = ent
          /\ wf1' = wf1
          /\ wf2' = wf2
          /\ pret'.result \in {<<"LEFT", "RIGHT">>, <<"RIGHT", "LEFT">>}
          /\ pret'.result = IF 2 * pret'.draw < RandomRange
                            THEN <<"LEFT", "RIGHT">> ELSE <<"RIGHT", "LEFT">>
      ]_vars

\* C21's case: measure_both() has returned (RIGHT, LEFT) on a pair whose
\* entanglement was broken, over two wavefunctions that are not collapsed.
C21_Witness ==
    /\ pret.op = "measure_both"
    /\ ent.made /\ ent.entanglement_strength = 0
    /\ pret.result = <<"RIGHT", "LEFT">>
    /\ wf1 = [ar |-> 3, ai |-> 0, br |-> 4, bi |-> 0, den |-> 25]
    /\ wf2 = [ar |-> 1, ai |-> 0, br |-> 1, bi |-> 0, den |-> 2]

\* The complex values 1+0j and 0+0j
ComplexOne == [re |-> 1, im |-> 0, den |-> 1]
ComplexZero == [re |-> 0, im |-> 0, den |-> 1]

\* The amplitudes of the record d are those of the basis state of its
\* direction.
BasisAmplitudes(d) ==
    /\ d.direction \in {"LEFT", "RIGHT"}
    /\ d.direction = "LEFT" =>
          d.amplitude_left = ComplexOne /\ d.amplitude_right = ComplexZero
    /\ d.direction = "RIGHT" =>
          d.amplitude_left = ComplexZero /\ d.amplitude_right = ComplexOne

\* C24: every record of decision_history, and the record returned by the
\* last make_quantum_decision, has amplitude_left = 1+0j and
\* amplitude_right = 0+0j when its direction is LEFT and the reverse when
\* it is RIGHT, whatever the pair was before the call.
C24_DecisionHoldsBasisAmplitudes ==
    /\ \A i \in 1..Len(sim.decision_history) :
          BasisAmplitudes(sim.decision_history[i])
    /\ \A i \in 1..Len(ret.decision) : BasisAmplitudes(ret.decision[i])

\* C24's case: a decision LEFT taken from the pair (0.6, 0.8), whose
\* amplitudes were neither 1 nor 0, is stored with amplitude_left = 1+0j.
C24_Witness ==
    /\ ret.op = "make_quantum_decision"
    /\ Len(sim.decision_history) >= 1
    /\ sim.decision_history[Len(sim.decision_history)] = LastDecision
    /\ LastDecision.direction = "LEFT"
    /\ LastDecision.probability = [n |-> 9, d |-> 25]
    /\ LastDecision.amplitude_left = ComplexOne
    /\ LastDecision.amplitude_right = ComplexZero

\* A step of the model that is a make_quantum_decision call.
AnyDecision == now' = now /\ ret'.op = "make_quantum_decision"

ZeroPair == [ar |-> 0, ai |-> 0, br |-> 0, bi |-> 0, den |-> 1]

ZeroProbability == [n |-> 0, d |-> 1]

\* C26: initialize(0, 0, ...) leaves the pair (0, 0); on that pair
\* normalize changes nothing, get_probabilities returns (0, 0) and
\* collapse() returns RIGHT and leaves (0, 1) for every draw; a
\* make_quantum_decision taken on it returns a record with direction
\* RIGHT, probability 0 and entropy 0, and raises nothing.
C26_ZeroPairDecidesRight ==
    [][/\ (ret'.op = "initialize" /\ ret'.args[1] = 0 /\ ret'.args[2] = 0) =>
             sim'.wavefunction = ZeroPair
       /\ sim'.wavefunction = ZeroPair =>
             /\ Normalize(sim'.wavefunction) = ZeroPair
             /\ GetProbabilities(sim'.wavefunction) =
                    [left |-> ZeroProbability, right |-> ZeroProbability]
             /\ \A r \in RandomDraws :
                    Collapse(sim'.wavefunction, r) =
                        [direction |-> "RIGHT", wf |-> RightBasis]
       /\ (AnyDecision /\ sim.wavefunction = ZeroPair) =>
             /\ ~ret'.raised
             /\ Len(ret'.decision) = 1
             /\ ret'.decision[1].direction = "RIGHT"
             /\ ret'.decision[1].probability = ZeroProbability
             /\ ret'.decision[1].entropy = 0
             /\ ret'.decision[1].amplitude_left = ComplexZero
             /\ ret'.decision[1].amplitude_right = ComplexOne
      ]_vars

\* C26's case: after initialize(0, 0, 0.001, 0) a decision has returned
\* RIGHT with probability 0, entropy 0 and coherence 0.
C26_Witness ==
    /\ ret.op = "make_quantum_decision"
    /\ sim.coherence_time = 1 /\ sim.noise_level = 0
    /\ LastDecision.direction = "RIGHT"
    /\ LastDecision.probability = ZeroProbability
    /\ LastDecision.entropy = 0
    /\ LastDecision.coherence = 0

\* C27: a step taken with noise_level = 0 on a pair that is not (0, 0),
\* which applies apply_decoherence and nothing else to the pair, leaves
\* (p_left, p_right), the entropy and the coherence as they were.
C27_DecoherenceKeepsProbabilities ==
    [][(AnyStep /\ sim.noise_level = 0 /\ sim.wavefunction # ZeroPair) =>
          /\ GetProbabilities(sim'.wavefunction)
                = GetProbabilities(sim.wavefunction)
          /\ CalculateEntropy(sim'.wavefunction)
                = CalculateEntropy(sim.wavefunction)
          /\ CalculateCoherence(sim'.wavefunction)
                = CalculateCoherence(sim.wavefunction)
      ]_vars

\* C22: while the walk is active and the robot connected, a worker that
\* has a decision sends exactly one command, named by the decision's
\* direction, and stays in the loop.
C22_DecisionSendsOneCommand ==
    [][\A i \in 1..Len(gui.workers) :
          (/\ gui.workers[i].pc = "log"
           /\ gui'.workers[i].pc # "log"
           /\ gui.quantum_walk_active
           /\ gui.robot_connected)
          => /\ gui'.sent =
                  Append(gui.sent, gui.workers[i].decision[1].direction)
             /\ gui'.workers[i].pc # "done"
      ]_vars

LogOps == {"log_telemetry", "log_quantum_event", "log_position", "log_command"}

\* C23: start_mission makes the id it returns the current mission;
\* end_mission with the current id or with no id leaves no current mission;
\* a log_* call made without a current mission records no row and changes
\* nothing.
C23_MissionIdLifecycle ==
    [][/\ lret'.op = "start_mission"
            => /\ logger'.current_mission_id = lret'.result
               /\ lret'.result # NoMission
       /\ (/\ lret'.op = "end_mission"
           /\ lret'.arg \in {NoMission, logger.current_mission_id})
            => logger'.current_mission_id = NoMission
       /\ (lret'.op \in LogOps /\ logger.current_mission_id = NoMission)
            => (logger' = logger /\ lret'.result = 0)
      ]_vars

\* A mission was started and ended through its id, and a log_* call made
\* after that recorded nothing.
C23_Witness ==
    /\ lret.op \in LogOps
    /\ lret.result = 0
    /\ logger.current_mission_id = NoMission
    /\ logger.missions # <<>>
    /\ \A i \in 1..Len(logger.missions) :
          logger.missions[i].status = "completed"
    /\ RowCount(logger) > 0

\* Workers executing quantum_walk_loop, and those inside
\* make_quantum_decision.
InLoop == {i \in 1..Len(gui.workers) : gui.workers[i].pc # "done"}
Deciding == {i \in 1..Len(gui.workers) : gui.workers[i].pc \in InsideDecision}

\* C28: at most one worker executes quantum_walk_loop, and at most one is
\* inside make_quantum_decision, in every reachable state.
C28_AtMostOneWorker ==
    /\ Cardinality(InLoop) <= 1
    /\ Cardinality(Deciding) <= 1

\* The unsafe side of the thresholds, as the claim states it.
Unsafe(metric, value) ==
    \/ metric = "battery_voltage" /\ value <= WarningThresholds[metric].low
    \/ metric = "temperature" /\ value >= WarningThresholds[metric].high
    \/ metric = "motor_current" /\ value >= WarningThresholds[metric].high
    \/ metric = "rssi" /\ value <= WarningThresholds[metric].weak

\* C29: an update_telemetry that returns has invoked a callback for a
\* metric only when the reading is on the unsafe side of a threshold; it has
\* invoked none on the nominal readings; and on a battery reading at or
\* below the low threshold it has invoked every registered callback.
C29_CallbacksOnlyWhenUnsafe ==
    (vret.op = "update_telemetry" /\ ~vret.raised) =>
        /\ \A k \in 1..Len(vret.calls) :
              Unsafe(vret.calls[k].metric, vret.data[vret.calls[k].metric])
        /\ vret.data = NominalReadings => vret.calls = <<>>
        /\ ("battery_voltage" \in DOMAIN vret.data
              /\ vret.data["battery_voltage"]
                    <= WarningThresholds["battery_voltage"].low)
            => \A c \in 1..Len(visualizer.callbacks) :
                  \E k \in 1..Len(vret.calls) :
                      /\ vret.calls[k].callback = visualizer.callbacks[c]
                      /\ vret.calls[k].metric = "battery_voltage"

ActiveMissions ==
    {i \in 1..Len(logger.missions) : logger.missions[i].status = "active"}

\* C30: at most one mission has status 'active', and it is the one
\* current_mission_id names.
C30_AtMostOneActiveMission ==
    /\ Cardinality(ActiveMissions) <= 1
    /\ \A i \in ActiveMissions :
          logger.missions[i].id = logger.current_mission_id

====
